---- MODULE Spec2Model ----
(***************************************************************************)
(* extension-eyre: a typed extension store carried by an eyre Report.      *)
(*                                                                         *)
(* The state is the set of result values a caller holds (each one empty,   *)
(* Ok(x), Err(e) with a plain error, or a Report with its handler), the    *)
(* process-wide eyre hook and panic hook, and a record of the last call:   *)
(* which operation ran, what it returned and what it did on the way (a     *)
(* handler built by the hook, a downcast attempted, a producer closure     *)
(* invoked).                                                               *)
(***************************************************************************)
EXTENDS Integers, Sequences, FiniteSets

\* Extension values are 0..MaxVal (Retry(bool), Counter(usize) in the docs).
MaxVal == 1

Vals == 0..MaxVal

\* The extension types of the documentation: the TypeId is the key.
Types == {"Retry", "Counter"}

\* The error types converted into reports by the examples.
Errors == {"OutputError"}

\* The result values a caller holds at a time.
Slots == {"first", "second"}

VARIABLES slot, hook, panic_hook, last, fx, ret

vars == <<slot, hook, panic_hook, last, fx, ret>>

\* Option<T>
None == <<>>

Some(x) == <<x>>

----------------------------------------------------------------------------
(* Extensions: the type map (extensions/map.rs), one entry per stored type *)

Entry(t, v) == [ty |-> t, val |-> v]

Extensions_new == {}

Extensions_insert(m, t, v) == {e \in m : e.ty # t} \cup {Entry(t, v)}

Extensions_get(m, t) ==
    IF \E e \in m : e.ty = t
    THEN Some((CHOOSE e \in m : e.ty = t).val)
    ELSE None

Extensions_get_mut(m, t) == Extensions_get(m, t)

\* remove::<T>() leaving the entry of T in the map.
Extensions_remove_kept(m, t) == m

\* The map after remove::<T>().
Extensions_remove(m, t) == {e \in m : e.ty # t}

\* What remove::<T>() returns: the value it took out of the map.
Extensions_remove_value(m, t) == Extensions_get(m, t)

----------------------------------------------------------------------------
(* Handlers *)

NoHandler == [kind |-> "none", inner |-> "none", extensions |-> {}]

\* The handler eyre installs by itself when no hook was set.
DefaultHandler(e) == [kind |-> "Default", inner |-> "none", extensions |-> {}]

\* The capability color_eyre's hook builds for one error.
Inner_hook(e) == e

\* The closure returned by EyreHook::into_eyre_hook, called once per report.
Hook_call_reused(e) ==
    [kind |-> "Handler", inner |-> Inner_hook(e),
     extensions |-> {[ty |-> "Retry", val |-> 0]}]

Hook_call(e) ==
    [kind |-> "Handler", inner |-> Inner_hook(e), extensions |-> Extensions_new]

\* eyre's capture of a handler for a new report: the hook that is set, which
\* is the default hook from the first report on when none was installed.
Hook_after_capture(hk) == IF hk = "unset" THEN "default" ELSE hk

Capture_handler(hk, e) ==
    IF hk = "extension_eyre" THEN Hook_call(e) ELSE DefaultHandler(e)

\* handler().downcast_ref::<crate::Handler>() / downcast_mut
Downcast_unchecked(h) == Some(h)

Downcast(h) == IF h.kind = "Handler" THEN Some(h) ELSE None

\* What the wrapped capability prints for an error.
Inner_debug(inner, e) == <<"color_eyre", inner, e>>

Default_debug(e) == <<"eyre", e>>

Handler_debug_leaky(h, e) == <<"color_eyre", h.inner, e, h.extensions>>

Handler_debug(h, e) == Inner_debug(h.inner, e)

\* Debug of a Report: the installed handler's debug, on the report's error.
Report_debug(rep) ==
    IF rep.handler.kind = "Handler"
    THEN Handler_debug(rep.handler, rep.error)
    ELSE Default_debug(rep.error)

----------------------------------------------------------------------------
(* Result values *)

Empty == [val |-> 0, handler |-> NoHandler, error |-> "none", tag |-> "Empty"]

Ok(x) == [val |-> x, handler |-> NoHandler, error |-> "none", tag |-> "Ok"]

Err(e) == [val |-> 0, handler |-> NoHandler, error |-> e, tag |-> "Err"]

Report(e, h) == [val |-> 0, handler |-> h, error |-> e, tag |-> "Report"]

IsReport(r) == r.tag = "Report"

HasHandler(r) == IsReport(r) /\ r.handler.kind = "Handler"

----------------------------------------------------------------------------
(* impl Extension for Report: the read side *)

\* extension_ref handing out a default value where the type is absent.
Report_extension_ref_default(rep, t) ==
    IF Downcast(rep.handler) # None
    THEN IF Extensions_get(rep.handler.extensions, t) = None
         THEN Some(0)
         ELSE Extensions_get(rep.handler.extensions, t)
    ELSE None

Report_extension_ref(rep, t) ==
    IF Downcast(rep.handler) # None
    THEN Extensions_get(rep.handler.extensions, t)
    ELSE None

\* extension_mut that never finds the value.
Report_extension_mut_none(rep, t) == None

Report_extension_mut(rep, t) ==
    IF Downcast(rep.handler) # None
    THEN Extensions_get_mut(rep.handler.extensions, t)
    ELSE None

Report_extensions_ref(rep) ==
    IF Downcast(rep.handler) # None
    THEN Some(rep.handler.extensions)
    ELSE None

Report_extensions_mut(rep) ==
    IF Downcast(rep.handler) # None
    THEN Some(rep.handler.extensions)
    ELSE None

\* The report after the caller stored w through the &mut T it was handed.
WriteThrough(rep, t, w) ==
    IF Report_extension_mut(rep, t) # None
    THEN [rep EXCEPT !.handler.extensions = Extensions_insert(@, t, w)]
    ELSE rep

----------------------------------------------------------------------------
(* impl ExtensionExt for Report: the write side. Each returns the report    *)
(* (self), the downcasts it attempted and the producer calls it made.       *)

Out(self, casts, calls) == [self |-> self, casts |-> casts, calls |-> calls]

\* Variants of the three operations, each with one slip: the value dropped,
\* the value appended beside the old one, the producer called before the
\* downcast, the detach doing nothing, the detach clearing the whole map.
Report_extension_dropped(rep, t, v) == Out(rep, 1, 0)

Report_extension_append(rep, t, v) ==
    IF Downcast(rep.handler) # None
    THEN Out([rep EXCEPT !.handler.extensions = @ \cup {Entry(t, v)}], 1, 0)
    ELSE Out(rep, 1, 0)

Report_with_extension_eager(rep, t, v) ==
    IF Downcast(rep.handler) # None
    THEN Out([rep EXCEPT !.handler.extensions = Extensions_insert(@, t, v)], 1, 1)
    ELSE Out(rep, 1, 1)

Report_remove_extension_noop(rep, t) == Out(rep, 1, 0)

Report_remove_extension_clear(rep, t) ==
    IF Downcast(rep.handler) # None
    THEN Out([rep EXCEPT !.handler.extensions = Extensions_new], 1, 0)
    ELSE Out(rep, 1, 0)

Report_extension(rep, t, v) ==
    IF Downcast(rep.handler) # None
    THEN Out([rep EXCEPT !.handler.extensions = Extensions_insert(@, t, v)], 1, 0)
    ELSE Out(rep, 1, 0)

\* v is the value the producer closure f returns when it is called.
Report_with_extension(rep, t, v) ==
    IF Downcast(rep.handler) # None
    THEN Out([rep EXCEPT !.handler.extensions = Extensions_insert(@, t, v)], 1, 1)
    ELSE Out(rep, 1, 0)

Report_remove_extension(rep, t) ==
    IF Downcast(rep.handler) # None
    THEN Out([rep EXCEPT !.handler.extensions = Extensions_remove(@, t)], 1, 0)
    ELSE Out(rep, 1, 0)

----------------------------------------------------------------------------
(* impl ExtensionExt for Result<T, E>, E: Into<Report> *)

\* error.into() wrapping every error, a Report included, in a new report.
Into_Report_rewrap(res, hk) ==
    [hook |-> Hook_after_capture(hk),
     self |-> Report(res.error, Capture_handler(hk, res.error)), built |-> 1]

\* error.into(): a Report stays itself, any other error gets a handler from
\* the hook.
Into_Report(res, hk) ==
    IF IsReport(res)
    THEN [hook |-> hk, self |-> res, built |-> 0]
    ELSE [hook |-> Hook_after_capture(hk),
          self |-> Report(res.error, Capture_handler(hk, res.error)), built |-> 1]

ROut(self, hk, built, casts, calls) ==
    [hook |-> hk, self |-> self, casts |-> casts, calls |-> calls, built |-> built]

\* with_extension with the producer called before map_err looks at the result.
Result_with_extension_eager(res, hk, t, v) ==
    IF res.tag = "Ok"
    THEN ROut(res, hk, 0, 0, 1)
    ELSE LET c == Into_Report(res, hk)
             o == Report_extension(c.self, t, v)
         IN  ROut(o.self, c.hook, c.built, o.casts, 1)

Result_extension(res, hk, t, v) ==
    IF res.tag = "Ok"
    THEN ROut(res, hk, 0, 0, 0)
    ELSE LET c == Into_Report(res, hk)
             o == Report_extension(c.self, t, v)
         IN  ROut(o.self, c.hook, c.built, o.casts, o.calls)

Result_with_extension(res, hk, t, v) ==
    IF res.tag = "Ok"
    THEN ROut(res, hk, 0, 0, 0)
    ELSE LET c == Into_Report(res, hk)
             o == Report_with_extension(c.self, t, v)
         IN  ROut(o.self, c.hook, c.built, o.casts, o.calls)

Result_remove_extension(res, hk, t) ==
    IF res.tag = "Ok"
    THEN ROut(res, hk, 0, 0, 0)
    ELSE LET c == Into_Report(res, hk)
             o == Report_remove_extension(c.self, t)
         IN  ROut(o.self, c.hook, c.built, o.casts, o.calls)

----------------------------------------------------------------------------
(* Hook installation (config.rs) *)

\* eyre::set_hook: the hook is set once; a second call is an InstallError.
Set_hook(hk) ==
    IF hk = "unset"
    THEN [hook |-> "extension_eyre", ok |-> TRUE]
    ELSE [hook |-> hk, ok |-> FALSE]

----------------------------------------------------------------------------
(* The state machine *)

Call(op, i, t, v) == [slot |-> i, ty |-> t, val |-> v, op |-> op]

Effects(built, casts, calls) == [casts |-> casts, calls |-> calls, built |-> built]

NoEffect == Effects(0, 0, 0)

Unit == <<"()">>

ReportOps == {"extension", "with_extension", "remove_extension"}

ResultOps == {"Result::extension", "Result::with_extension", "Result::remove_extension"}

Init ==
    /\ slot = [i \in Slots |-> Empty]
    /\ hook = "unset"
    /\ panic_hook = "std"
    /\ last = Call("start", "first", "-", 0)
    /\ fx = NoEffect
    /\ ret = Unit

\* A function returns Ok(x) or Err(e) to its caller (output2 of the examples).
Produce(i, r) ==
    /\ slot[i].tag = "Empty"
    /\ slot' = [slot EXCEPT ![i] = r]
    /\ last' = Call("produce", i, "-", 0)
    /\ fx' = NoEffect
    /\ ret' = Unit
    /\ UNCHANGED <<hook, panic_hook>>

\* eyre!(..) or Report::from(e): a report is built and the hook gives it its
\* handler.
NewReport(i, e) ==
    /\ slot[i].tag = "Empty"
    /\ LET c == Into_Report(Err(e), hook)
       IN  /\ slot' = [slot EXCEPT ![i] = c.self]
           /\ hook' = c.hook
           /\ fx' = Effects(c.built, 0, 0)
    /\ last' = Call("new", i, "-", 0)
    /\ ret' = Unit
    /\ UNCHANGED panic_hook

\* The caller drops the value.
Drop(i) ==
    /\ slot[i].tag # "Empty"
    /\ slot' = [slot EXCEPT ![i] = Empty]
    /\ last' = Call("drop", i, "-", 0)
    /\ fx' = NoEffect
    /\ ret' = Unit
    /\ UNCHANGED <<hook, panic_hook>>

\* extension_ref taking the value out of the store as it reads it.
ExtensionRef_taking(i, t) ==
    /\ IsReport(slot[i])
    /\ ret' = Report_extension_ref(slot[i], t)
    /\ slot' = [slot EXCEPT ![i] = Report_remove_extension(@, t).self]
    /\ last' = Call("extension_ref", i, t, 0)
    /\ fx' = Effects(0, 1, 0)
    /\ UNCHANGED <<hook, panic_hook>>

ExtensionRef(i, t) ==
    /\ IsReport(slot[i])
    /\ ret' = Report_extension_ref(slot[i], t)
    /\ last' = Call("extension_ref", i, t, 0)
    /\ fx' = Effects(0, 1, 0)
    /\ UNCHANGED <<slot, hook, panic_hook>>

\* extension_mut, and the caller then storing w through the reference it got
\* (w may be the value that is there).
ExtensionMut(i, t, w) ==
    /\ IsReport(slot[i])
    /\ ret' = Report_extension_mut(slot[i], t)
    /\ slot' = [slot EXCEPT ![i] = WriteThrough(@, t, w)]
    /\ last' = Call("extension_mut", i, t, w)
    /\ fx' = Effects(0, 1, 0)
    /\ UNCHANGED <<hook, panic_hook>>

ExtensionsRef(i) ==
    /\ IsReport(slot[i])
    /\ ret' = Report_extensions_ref(slot[i])
    /\ last' = Call("extensions_ref", i, "-", 0)
    /\ fx' = Effects(0, 1, 0)
    /\ UNCHANGED <<slot, hook, panic_hook>>

\* extensions_mut, and the caller then using the map it got: an insert, a
\* remove, or nothing.
MapOps ==
    {[ty |-> "-", val |-> 0, k |-> "get"]}
      \cup {[ty |-> t, val |-> 0, k |-> "remove"] : t \in Types}
      \cup {[ty |-> t, val |-> v, k |-> "insert"] : t \in Types, v \in Vals}

ApplyMapOp(m, o) ==
    IF o.k = "insert" THEN Extensions_insert(m, o.ty, o.val)
    ELSE IF o.k = "remove" THEN Extensions_remove(m, o.ty)
    ELSE m

\* What the caller holds after using the map: the value remove handed over,
\* nothing from insert, the map itself otherwise.
MapOpResult(m, o) ==
    IF o.k = "insert" THEN Unit
    ELSE IF o.k = "remove" THEN Extensions_remove_value(m, o.ty)
    ELSE Some(m)

MapOpName(o) ==
    IF o.k = "insert" THEN "extensions_mut.insert"
    ELSE IF o.k = "remove" THEN "extensions_mut.remove"
    ELSE "extensions_mut"

ExtensionsMut(i, o) ==
    /\ IsReport(slot[i])
    /\ ret' = IF Report_extensions_mut(slot[i]) = None THEN None
              ELSE MapOpResult(Report_extensions_mut(slot[i])[1], o)
    /\ slot' = [slot EXCEPT ![i] =
                  IF Report_extensions_mut(@) = None THEN @
                  ELSE [@ EXCEPT !.handler.extensions = ApplyMapOp(@, o)]]
    /\ last' = Call(MapOpName(o), i, o.ty, o.val)
    /\ fx' = Effects(0, 1, 0)
    /\ UNCHANGED <<hook, panic_hook>>

\* extension writing to one store that every report shares.
ReportExtension_shared(i, t, v) ==
    /\ IsReport(slot[i])
    /\ slot' = [j \in Slots |->
                  IF IsReport(slot[j]) THEN Report_extension(slot[j], t, v).self
                  ELSE slot[j]]
    /\ fx' = Effects(0, 1, 0)
    /\ last' = Call("extension", i, t, v)
    /\ ret' = Unit
    /\ UNCHANGED <<hook, panic_hook>>

ReportExtension(i, t, v) ==
    /\ IsReport(slot[i])
    /\ LET o == Report_extension(slot[i], t, v)
       IN  /\ slot' = [slot EXCEPT ![i] = o.self]
           /\ fx' = Effects(0, o.casts, o.calls)
    /\ last' = Call("extension", i, t, v)
    /\ ret' = Unit
    /\ UNCHANGED <<hook, panic_hook>>

ReportWithExtension(i, t, v) ==
    /\ IsReport(slot[i])
    /\ LET o == Report_with_extension(slot[i], t, v)
       IN  /\ slot' = [slot EXCEPT ![i] = o.self]
           /\ fx' = Effects(0, o.casts, o.calls)
    /\ last' = Call("with_extension", i, t, v)
    /\ ret' = Unit
    /\ UNCHANGED <<hook, panic_hook>>

ReportRemoveExtension(i, t) ==
    /\ IsReport(slot[i])
    /\ LET o == Report_remove_extension(slot[i], t)
       IN  /\ slot' = [slot EXCEPT ![i] = o.self]
           /\ fx' = Effects(0, o.casts, o.calls)
    /\ last' = Call("remove_extension", i, t, 0)
    /\ ret' = Unit
    /\ UNCHANGED <<hook, panic_hook>>

ResultExtension(i, t, v) ==
    /\ slot[i].tag # "Empty"
    /\ LET o == Result_extension(slot[i], hook, t, v)
       IN  /\ slot' = [slot EXCEPT ![i] = o.self]
           /\ hook' = o.hook
           /\ fx' = Effects(o.built, o.casts, o.calls)
    /\ last' = Call("Result::extension", i, t, v)
    /\ ret' = Unit
    /\ UNCHANGED panic_hook

ResultWithExtension(i, t, v) ==
    /\ slot[i].tag # "Empty"
    /\ LET o == Result_with_extension(slot[i], hook, t, v)
       IN  /\ slot' = [slot EXCEPT ![i] = o.self]
           /\ hook' = o.hook
           /\ fx' = Effects(o.built, o.casts, o.calls)
    /\ last' = Call("Result::with_extension", i, t, v)
    /\ ret' = Unit
    /\ UNCHANGED panic_hook

ResultRemoveExtension(i, t) ==
    /\ slot[i].tag # "Empty"
    /\ LET o == Result_remove_extension(slot[i], hook, t)
       IN  /\ slot' = [slot EXCEPT ![i] = o.self]
           /\ hook' = o.hook
           /\ fx' = Effects(o.built, o.casts, o.calls)
    /\ last' = Call("Result::remove_extension", i, t, 0)
    /\ ret' = Unit
    /\ UNCHANGED panic_hook

\* {:?} of a report.
Debug(i) ==
    /\ IsReport(slot[i])
    /\ ret' = Report_debug(slot[i])
    /\ last' = Call("debug", i, "-", 0)
    /\ fx' = NoEffect
    /\ UNCHANGED <<slot, hook, panic_hook>>

\* PanicHook::install: std::panic::set_hook replaces the hook that is there.
PanicHook_install(ph) == "extension_eyre"

\* eyre_hook.install()?; panic_hook.install(); Ok(())
\* install setting the panic hook before it tries the eyre hook.
HookBuilder_install_panic_first ==
    /\ panic_hook' = PanicHook_install(panic_hook)
    /\ hook' = Set_hook(hook).hook
    /\ ret' = IF Set_hook(hook).ok THEN <<"Ok">> ELSE <<"Err">>
    /\ last' = Call("HookBuilder::install", "first", "-", 0)
    /\ fx' = NoEffect
    /\ UNCHANGED slot

HookBuilder_install ==
    /\ hook' = Set_hook(hook).hook
    /\ panic_hook' = IF Set_hook(hook).ok THEN PanicHook_install(panic_hook)
                     ELSE panic_hook
    /\ ret' = IF Set_hook(hook).ok THEN <<"Ok">> ELSE <<"Err">>
    /\ last' = Call("HookBuilder::install", "first", "-", 0)
    /\ fx' = NoEffect
    /\ UNCHANGED slot

Next ==
    \/ \E i \in Slots, x \in Vals : Produce(i, Ok(x))
    \/ \E i \in Slots, e \in Errors : Produce(i, Err(e))
    \/ \E i \in Slots, e \in Errors : NewReport(i, e)
    \/ \E i \in Slots : Drop(i)
    \/ \E i \in Slots, t \in Types : ExtensionRef(i, t)
    \/ \E i \in Slots, t \in Types, w \in Vals : ExtensionMut(i, t, w)
    \/ \E i \in Slots : ExtensionsRef(i)
    \/ \E i \in Slots, o \in MapOps : ExtensionsMut(i, o)
    \/ \E i \in Slots, t \in Types, v \in Vals : ReportExtension(i, t, v)
    \/ \E i \in Slots, t \in Types, v \in Vals : ReportWithExtension(i, t, v)
    \/ \E i \in Slots, t \in Types : ReportRemoveExtension(i, t)
    \/ \E i \in Slots, t \in Types, v \in Vals : ResultExtension(i, t, v)
    \/ \E i \in Slots, t \in Types, v \in Vals : ResultWithExtension(i, t, v)
    \/ \E i \in Slots, t \in Types : ResultRemoveExtension(i, t)
    \/ \E i \in Slots : Debug(i)
    \/ HookBuilder_install

Spec == Init /\ [][Next]_vars

----------------------------------------------------------------------------
(* Properties. A step is told by last', the call that made it. *)

Stored(r) == r.handler.extensions

\* The step was made by a call of one of ops on slot i with type t.
By(c, ops, i, t) == c.slot = i /\ c.ty = t /\ c.op \in ops

AttachOps == {"extension", "with_extension", "Result::extension", "Result::with_extension"}

Inserters == AttachOps \cup {"extensions_mut.insert"}

Writers ==
    ReportOps \cup ResultOps
      \cup {"extension_mut", "extensions_mut", "extensions_mut.insert",
            "extensions_mut.remove"}

\* The calls that may change what is stored under type t in the report of
\* slot i.
Touches(c, i, t) == c.slot = i /\ (c.op = "drop" \/ (c.ty = t /\ c.op \in Writers))

\* An attach or a detach of t on the report of slot i: extension,
\* with_extension, remove_extension on the report or on its result, an insert
\* or a remove on the map of extensions_mut, or the report dropped.
AttachOrDetach(c, i, t) ==
    /\ c.slot = i
    /\ \/ c.op = "drop"
       \/ /\ c.ty = t
          /\ c.op \in ReportOps \cup ResultOps
                        \cup {"extensions_mut.insert", "extensions_mut.remove"}

\* C1 as stated: with this crate's Handler on the report, attaching v of type
\* t makes extension_ref of t return Some(v), and that answer stays as long as
\* no attach or detach of t intervenes.
C1_Original ==
    [][\A i \in Slots, t \in Types :
         /\ (By(last', {"extension", "Result::extension"}, i, t)
               /\ HasHandler(slot'[i]))
              => Report_extension_ref(slot'[i], t) = Some(last'.val)
         /\ (HasHandler(slot[i]) /\ ~AttachOrDetach(last', i, t))
              => Report_extension_ref(slot'[i], t) = Report_extension_ref(slot[i], t)
      ]_vars

\* C1: with this crate's Handler on the report, attaching v of type t
\* (Report::extension, or Result::extension on an Err) makes extension_ref of
\* t on the resulting report return Some(v), and every later call that is no
\* attach or detach of t and no write through extension_mut or extensions_mut
\* of t on that report leaves that answer as it is.
C1_AttachThenRef ==
    [][\A i \in Slots, t \in Types :
         /\ (By(last', {"extension", "Result::extension"}, i, t)
               /\ HasHandler(slot'[i]))
              => Report_extension_ref(slot'[i], t) = Some(last'.val)
         /\ (HasHandler(slot[i]) /\ ~Touches(last', i, t))
              => Report_extension_ref(slot'[i], t) = Report_extension_ref(slot[i], t)
      ]_vars

\* Scenario A: Err(e).extension(Retry(true)) converted e, and Retry is read back.
C1_Witness ==
    /\ last = Call("Result::extension", "first", "Retry", 1)
    /\ fx.built = 1
    /\ HasHandler(slot["first"])
    /\ Report_extension_ref(slot["first"], "Retry") = Some(1)

AtMostOnePerType(m) == \A a, b \in m : a.ty = b.ty => a = b

\* C2: the store of every report holds at most one value per type, and an
\* attach (eager or lazy) of v under t overwrites: afterwards extension_ref
\* and extension_mut of t are Some(v) and the map handed out by extensions_ref
\* is the old map with its entry of t replaced, so a value attached before can
\* no longer be read.
C2_Overwrite ==
    [][\A i \in Slots :
         /\ IsReport(slot'[i]) => AtMostOnePerType(Stored(slot'[i]))
         /\ \A t \in Types :
              (By(last', AttachOps, i, t) /\ HasHandler(slot'[i]))
              => /\ Report_extension_ref(slot'[i], t) = Some(last'.val)
                 /\ Report_extension_mut(slot'[i], t) = Some(last'.val)
                 /\ {e \in Stored(slot'[i]) : e.ty = t} = {Entry(t, last'.val)}
                 /\ Report_extensions_ref(slot'[i])
                      = Some({e \in Stored(slot[i]) : e.ty # t}
                               \cup {Entry(t, last'.val)})
      ]_vars

\* Counter was attached to a report that had a Counter and a Retry: the new
\* value is the one stored.
C2_Witness ==
    /\ last = Call("extension", "first", "Counter", 1)
    /\ Stored(slot["first"]) = {Entry("Counter", 1), Entry("Retry", 0)}
    /\ Stored(slot["second"]) = {Entry("Counter", 0), Entry("Retry", 0)}

\* C3: on a report with this crate's Handler, remove_extension of t makes
\* extension_ref of t None, changes nothing when t is absent (so a second
\* detach is a no-op), and t stays absent until a call attaches it again.
C3_Detach ==
    [][\A i \in Slots, t \in Types :
         /\ (By(last', {"remove_extension"}, i, t) /\ HasHandler(slot[i]))
              => /\ Report_extension_ref(slot'[i], t) = None
                 /\ Report_extension_ref(slot[i], t) = None => slot'[i] = slot[i]
                 /\ Report_remove_extension(slot'[i], t).self = slot'[i]
         /\ (HasHandler(slot[i]) /\ HasHandler(slot'[i])
               /\ Report_extension_ref(slot[i], t) = None
               /\ ~By(last', Inserters, i, t))
              => Report_extension_ref(slot'[i], t) = None
      ]_vars

\* Scenario B: Retry was detached, the Counter attached beside it is kept.
C3_Witness ==
    /\ last = Call("remove_extension", "first", "Retry", 0)
    /\ HasHandler(slot["first"])
    /\ Report_extension_ref(slot["first"], "Retry") = None
    /\ Report_extension_ref(slot["first"], "Counter") = Some(1)

\* C4: an attach, a lazy attach or a detach of type t on a report leaves
\* extension_ref of every other type u of that report as it was.
C4_OtherTypesKept ==
    [][\A i \in Slots, t \in Types : \A u \in Types \ {t} :
         (IsReport(slot[i]) /\ By(last', ReportOps \cup ResultOps, i, t))
         => Report_extension_ref(slot'[i], u) = Report_extension_ref(slot[i], u)
      ]_vars

\* Scenario C: Retry and Counter are both on one report, each with its value.
C4_Witness ==
    /\ last = Call("with_extension", "first", "Retry", 0)
    /\ Report_extension_ref(slot["first"], "Retry") = Some(0)
    /\ Report_extension_ref(slot["first"], "Counter") = Some(1)

\* C5: extension, with_extension and remove_extension on Ok(x) return Ok(x),
\* build no handler (the hook is not called and stays as it is), attempt no
\* downcast and never call the producer.
C5_OkPassThrough ==
    [][\A i \in Slots :
         (slot[i].tag = "Ok" /\ last'.slot = i /\ last'.op \in ResultOps)
         => /\ slot'[i] = slot[i]
            /\ hook' = hook
            /\ fx' = NoEffect
      ]_vars

\* with_extension ran on Ok(1) before any hook was set: nothing was built.
C5_Witness ==
    /\ last.op = "Result::with_extension"
    /\ slot[last.slot] = Ok(1)
    /\ hook = "unset"
    /\ fx = NoEffect

\* C6: with_extension calls its producer exactly once and stores what it
\* returns under its type when the report's handler downcasts to this crate's
\* Handler, and calls it zero times and stores nothing when the downcast
\* fails; the same holds when it is reached through an Err result.
C6_ProducerGuarded ==
    [][\A i \in Slots, t \in Types :
         (By(last', {"with_extension", "Result::with_extension"}, i, t)
            /\ slot[i].tag # "Ok")
         => IF HasHandler(slot'[i])
            THEN /\ fx'.calls = 1
                 /\ Report_extension_ref(slot'[i], t) = Some(last'.val)
            ELSE /\ fx'.calls = 0
                 /\ Stored(slot'[i]) = {}
                 /\ IsReport(slot[i]) => slot'[i] = slot[i]
      ]_vars

\* The producer ran once and its value is stored.
C6_Witness ==
    /\ last = Call("with_extension", "first", "Counter", 1)
    /\ HasHandler(slot["first"])
    /\ fx.calls = 1
    /\ Report_extension_ref(slot["first"], "Counter") = Some(1)

\* C7: on a report whose handler is not this crate's Handler, extension_ref,
\* extension_mut, extensions_ref and extensions_mut are None (as values and as
\* what the calls return), and extension, with_extension, remove_extension and
\* the mutable accessors leave the report as it is, after any sequence of calls.
C7_ForeignHandler ==
    [][\A i \in Slots :
         (IsReport(slot[i]) /\ ~HasHandler(slot[i]))
         => /\ \A t \in Types :
                 /\ Report_extension_ref(slot[i], t) = None
                 /\ Report_extension_mut(slot[i], t) = None
            /\ Report_extensions_ref(slot[i]) = None
            /\ Report_extensions_mut(slot[i]) = None
            /\ (last'.slot = i /\ last'.op \in Writers) => slot'[i] = slot[i]
            /\ (last'.slot = i
                  /\ last'.op \in {"extension_ref", "extension_mut", "extensions_ref",
                                   "extensions_mut", "extensions_mut.insert",
                                   "extensions_mut.remove"})
                 => ret' = None
      ]_vars

\* No hook was installed, eyre gave the report its default handler, and an
\* extension was attached to it: nothing is stored.
C7_Witness ==
    /\ last = Call("extension", "first", "Retry", 1)
    /\ hook = "default"
    /\ IsReport(slot["first"])
    /\ ~HasHandler(slot["first"])
    /\ fx.casts = 1
    /\ Stored(slot["first"]) = {}

\* C8: the Debug output of a report with this crate's Handler is what the
\* wrapped capability prints for the report's error, whatever the store holds:
\* two reports of the same error and capability print the same, and a debug
\* call returns exactly that.
C8_DebugIgnoresExtensions ==
    \A i \in Slots :
      HasHandler(slot[i])
      => /\ Report_debug(slot[i]) = Inner_debug(slot[i].handler.inner, slot[i].error)
         /\ \A j \in Slots :
              (HasHandler(slot[j]) /\ slot[j].error = slot[i].error
                 /\ slot[j].handler.inner = slot[i].handler.inner)
              => Report_debug(slot[j]) = Report_debug(slot[i])
         /\ (last.op = "debug" /\ last.slot = i)
              => ret = Inner_debug(Inner_hook(slot[i].error), slot[i].error)

\* Debug was called on a report with two extensions while the other report of
\* the same error has none.
C8_Witness ==
    /\ last.op = "debug"
    /\ last.slot = "first"
    /\ HasHandler(slot["first"])
    /\ HasHandler(slot["second"])
    /\ Cardinality(Stored(slot["first"])) = 2
    /\ Stored(slot["second"]) = {}

\* C9: a report that the hook of into_eyre_hook just built has an empty store:
\* extensions_ref is Some of the empty map and extension_ref is None for every
\* type; built on the way of a result operation of type t, it holds nothing of
\* any other type.
C9_FreshStoreEmpty ==
    \A i \in Slots :
      (last.slot = i /\ HasHandler(slot[i]) /\ fx.built = 1)
      => /\ last.op = "new"
              => /\ Report_extensions_ref(slot[i]) = Some({})
                 /\ \A t \in Types : Report_extension_ref(slot[i], t) = None
         /\ last.op \in ResultOps
              => \A u \in Types \ {last.ty} : Report_extension_ref(slot[i], u) = None

\* A new report is empty while the report beside it holds an extension.
C9_Witness ==
    /\ last.op = "new"
    /\ last.slot = "second"
    /\ fx.built = 1
    /\ HasHandler(slot["second"])
    /\ Report_extensions_ref(slot["second"]) = Some({})
    /\ Report_extension_ref(slot["first"], "Retry") = Some(1)

\* C10: an attach, a lazy attach, a detach or a mutable access on one report
\* leaves every other report, and so each of its extension_ref results, as it
\* was.
C10_OtherReportsKept ==
    [][\A i \in Slots, j \in Slots :
         (i # j /\ IsReport(slot[j]) /\ last'.slot = i /\ last'.op \in Writers)
         => /\ slot'[j] = slot[j]
            /\ \A t \in Types :
                 Report_extension_ref(slot'[j], t) = Report_extension_ref(slot[j], t)
      ]_vars

\* A write through extension_mut on the first report; the second holds other
\* values.
C10_Witness ==
    /\ last = Call("extension_mut", "first", "Counter", 1)
    /\ Stored(slot["first"]) = {Entry("Counter", 1)}
    /\ Stored(slot["second"]) = {Entry("Counter", 0), Entry("Retry", 1)}

\* The report r would be with a handler that is not this crate's Handler.
Mismatch(r) == Report(r.error, DefaultHandler(r.error))

\* No value of type t is stored in the report r.
Absent(r, t) == ~(\E e \in Stored(r) : e.ty = t)

\* C11 as stated: where the type asked for is absent, every read-side
\* operation (extension_ref, extension_mut, extensions_ref, extensions_mut)
\* answers as it does on a report whose handler is of another type.
C11_Original ==
    \A i \in Slots, t \in Types :
      (HasHandler(slot[i]) /\ Absent(slot[i], t))
      => /\ Report_extension_ref(slot[i], t) = Report_extension_ref(Mismatch(slot[i]), t)
         /\ Report_extension_mut(slot[i], t) = Report_extension_mut(Mismatch(slot[i]), t)
         /\ Report_extensions_ref(slot[i]) = Report_extensions_ref(Mismatch(slot[i]))
         /\ Report_extensions_mut(slot[i]) = Report_extensions_mut(Mismatch(slot[i]))

\* C11: where the type asked for is absent, extension_ref and extension_mut
\* of that type answer as they do on a report whose handler is of another
\* type, None, and that is what a call of either returns.
C11_AbsentLikeMismatch ==
    \A i \in Slots, t \in Types :
      (HasHandler(slot[i]) /\ Absent(slot[i], t))
      => /\ Report_extension_ref(slot[i], t) = Report_extension_ref(Mismatch(slot[i]), t)
         /\ Report_extension_mut(slot[i], t) = Report_extension_mut(Mismatch(slot[i]), t)
         /\ Report_extension_ref(slot[i], t) = None
         /\ By(last, {"extension_ref", "extension_mut"}, i, t) => ret = None

\* extension_ref of Retry returned None on a report with this crate's Handler
\* that holds a Counter only.
C11_Witness ==
    /\ last = Call("extension_ref", "first", "Retry", 0)
    /\ HasHandler(slot["first"])
    /\ Stored(slot["first"]) = {Entry("Counter", 1)}
    /\ ret = None

\* C12: remove::<T>() on the map of a report returns Some of the value stored
\* for T, which is the value of the latest insert, and leaves T absent with
\* every other entry kept; where T is absent it returns None and changes
\* nothing; a remove right after a remove returns None. remove_extension, which
\* drops the value remove returned, leaves T absent as well.
C12_TypeMapRemove ==
    [][\A i \in Slots, t \in Types :
         /\ (By(last', {"extensions_mut.remove"}, i, t) /\ HasHandler(slot[i]))
            => /\ ret' = Report_extension_ref(slot[i], t)
               /\ Absent(slot'[i], t)
               /\ Stored(slot'[i]) = {e \in Stored(slot[i]) : e.ty # t}
               /\ Absent(slot[i], t) => (ret' = None /\ slot' = slot)
               /\ ~Absent(slot[i], t) => ret' # None
               /\ Extensions_remove_value(Stored(slot'[i]), t) = None
               /\ By(last, Inserters, i, t) => ret' = Some(last.val)
               /\ By(last, {"extensions_mut.remove"}, i, t) => ret' = None
         /\ (By(last', {"remove_extension"}, i, t) /\ HasHandler(slot[i]))
            => /\ Absent(slot'[i], t)
               /\ Stored(slot'[i]) = {e \in Stored(slot[i]) : e.ty # t}
    ]_vars

\* remove::<Counter>() on the map returned Some(1), the Counter is gone and
\* the Retry next to it stayed.
C12_Witness ==
    /\ last = Call("extensions_mut.remove", "first", "Counter", 0)
    /\ HasHandler(slot["first"])
    /\ ret = Some(1)
    /\ Stored(slot["first"]) = {Entry("Retry", 0)}

\* The report that the report-level operation op with type t and value v
\* leaves of the report r.
ReportLevel(op, r, t, v) ==
    IF op = "Result::extension" THEN Report_extension(r, t, v).self
    ELSE IF op = "Result::with_extension" THEN Report_with_extension(r, t, v).self
    ELSE Report_remove_extension(r, t).self

\* C13: a result-level extension, with_extension or remove_extension on an
\* Err leaves what the report-level operation of the same name leaves of the
\* report the error converts into. An error that is a report already converts
\* into itself: no handler is built, its handler and the extensions of every
\* other type are kept; an error that is no report gets one new handler. Two
\* extension calls chained on one result leave both values on the one report.
C13_ResultAsReport ==
    [][\A i \in Slots, t \in Types :
         (By(last', ResultOps, i, t) /\ slot[i].tag # "Ok")
         => /\ IsReport(slot[i])
               => /\ slot'[i] = ReportLevel(last'.op, slot[i], t, last'.val)
                  /\ fx'.built = 0
                  /\ hook' = hook
                  /\ slot'[i].error = slot[i].error
                  /\ slot'[i].handler.kind = slot[i].handler.kind
                  /\ slot'[i].handler.inner = slot[i].handler.inner
                  /\ \A e \in Stored(slot[i]) : e.ty # t => e \in Stored(slot'[i])
            /\ ~IsReport(slot[i])
               => /\ slot'[i] = ReportLevel(last'.op,
                                   Report(slot[i].error,
                                          Capture_handler(hook, slot[i].error)),
                                   t, last'.val)
                  /\ fx'.built = 1
            /\ (HasHandler(slot[i]) /\ last.slot = i /\ last.ty # t
                  /\ last.op = "Result::extension" /\ last'.op = "Result::extension")
               => Stored(slot'[i]) = {Entry(last.ty, last.val), Entry(t, last'.val)}
                    \cup {e \in Stored(slot[i]) : e.ty \notin {last.ty, t}}
    ]_vars

\* .extension(Retry).extension(Counter(1)) on an Err: the second call found
\* the report of the first, built no handler, and both values are on it.
C13_Witness ==
    /\ last = Call("Result::extension", "first", "Counter", 1)
    /\ fx.built = 0
    /\ HasHandler(slot["first"])
    /\ Stored(slot["first"]) = {Entry("Retry", 0), Entry("Counter", 1)}

\* The types that have a value in the report r.
Present(r) == {e.ty : e \in Stored(r)}

\* C14: extension_mut of a type is Some exactly where extension_ref of it is,
\* and a call returns what extension_ref would. A value written through the
\* reference is what extension_ref returns from then on, until the next call
\* that writes the type; the write leaves the set of types present, the value
\* of every other type and every other report as they were.
C14_MutLikeRef ==
    [][\A i \in Slots, t \in Types :
         IsReport(slot[i])
         => /\ (Report_extension_mut(slot[i], t) = None)
                 <=> (Report_extension_ref(slot[i], t) = None)
            /\ By(last', {"extension_mut"}, i, t)
               => /\ ret' = Report_extension_ref(slot[i], t)
                  /\ ret' # None => Report_extension_ref(slot'[i], t) = Some(last'.val)
                  /\ ret' = None => slot' = slot
                  /\ Present(slot'[i]) = Present(slot[i])
                  /\ \A e \in Stored(slot[i]) : e.ty # t => e \in Stored(slot'[i])
                  /\ \A j \in Slots \ {i} : slot'[j] = slot[j]
            /\ (By(last, {"extension_mut"}, i, t) /\ ~Absent(slot[i], t)
                  /\ HasHandler(slot[i]))
               => /\ Report_extension_ref(slot[i], t) = Some(last.val)
                  /\ By(last', {"extension_ref"}, i, t) => ret' = Some(last.val)
                  /\ ~Touches(last', i, t)
                     => Report_extension_ref(slot'[i], t) = Some(last.val)
    ]_vars

\* extension_mut of Counter returned the Some(0) that was stored, 1 was written
\* through it, and the Retry beside it was left alone.
C14_Witness ==
    /\ last = Call("extension_mut", "first", "Counter", 1)
    /\ ret = Some(0)
    /\ HasHandler(slot["first"])
    /\ Stored(slot["first"]) = {Entry("Retry", 0), Entry("Counter", 1)}

\* C15: HookBuilder::install with an eyre hook already set returns an error
\* and leaves both the eyre hook and the panic hook as they were; with none
\* set it returns Ok and sets both. The panic hook changes in no other step,
\* so it is this crate's only where the eyre hook is this crate's too.
C15_EyreHookFirst ==
    [][/\ last'.op = "HookBuilder::install"
          => /\ hook # "unset"
                => (ret' = <<"Err">> /\ hook' = hook /\ panic_hook' = panic_hook)
             /\ hook = "unset"
                => /\ ret' = <<"Ok">>
                   /\ hook' = "extension_eyre"
                   /\ panic_hook' = PanicHook_install(panic_hook)
             /\ ret' = <<"Err">> => (hook' = hook /\ panic_hook' = panic_hook)
       /\ panic_hook' # panic_hook
          => (last'.op = "HookBuilder::install" /\ ret' = <<"Ok">>)
       /\ panic_hook' = "extension_eyre" => hook' = "extension_eyre"
    ]_vars

\* install failed against the hook eyre had set by itself, and the panic hook
\* is still the one of std.
C15_Witness ==
    /\ last.op = "HookBuilder::install"
    /\ ret = <<"Err">>
    /\ hook = "default"
    /\ panic_hook = "std"

\* get::<T>() on what extensions_ref returned, None where that was None.
GetOn(m, t) == IF m = None THEN None ELSE Extensions_get(m[1], t)

\* C16: a call of extension_ref or extensions_ref changes no report and no
\* hook, so a repeated call returns the same again; and on every report
\* extension_ref of a type equals get of that type on the map of
\* extensions_ref, None where extensions_ref is None, as values and as what
\* the calls return.
C16_ReadersPure ==
    [][/\ last'.op \in {"extension_ref", "extensions_ref"}
          => (slot' = slot /\ hook' = hook /\ panic_hook' = panic_hook)
       /\ \A i \in Slots, t \in Types :
            IsReport(slot[i])
            => /\ Report_extension_ref(slot[i], t)
                    = GetOn(Report_extensions_ref(slot[i]), t)
               /\ By(last', {"extension_ref"}, i, t)
                  => /\ ret' = GetOn(Report_extensions_ref(slot[i]), t)
                     /\ By(last, {"extension_ref"}, i, t) => ret' = ret
               /\ (last'.op = "extensions_ref" /\ last'.slot = i)
                  => /\ GetOn(ret', t) = Report_extension_ref(slot'[i], t)
                     /\ (last.op = "extensions_ref" /\ last.slot = i) => ret' = ret
    ]_vars

\* extension_ref of Counter returned Some(1) on the second report, which
\* holds the Counter alone and still does after the call.
C16_Witness ==
    /\ last = Call("extension_ref", "second", "Counter", 0)
    /\ ret = Some(1)
    /\ HasHandler(slot["second"])
    /\ Stored(slot["second"]) = {Entry("Counter", 1)}

====
